---- MODULE Spec2Model ----
(***************************************************************************)
(* A model of generate_bitmap.py: the land/water rasterizer, the validator *)
(* and the encoder chain (bit-pack, run-length encoding, base64).          *)
(*                                                                         *)
(* Representation.                                                         *)
(*  - Coordinates are integers in micro-degrees (1e-6 degree) and res is   *)
(*    an integer in units of 1e-4 degree, so that the sub-sample formulas  *)
(*    lat = 90.0 - (row + yo) * res and lng = -180.0 + (col + xo) * res    *)
(*    with yo, xo in {0.17, 0.5, 0.83} are computed exactly.  The floating *)
(*    point rounding of the source is not modelled.                        *)
(*  - A geometry is the set of points it contains: the source queries it   *)
(*    by prepared.contains(Point(lng, lat)) only.                          *)
(*  - The numpy array grid (rows x cols, uint8, values 0 and 1) is the set *)
(*    of cells <<row, col>> whose value is 1; np.zeros is the empty set.   *)
(*  - Byte arrays are sequences; At(s, i) reads them with the 0-based      *)
(*    index of the source.                                                 *)
(***************************************************************************)
EXTENDS Integers, Sequences, FiniteSets, TLC

VARIABLES
    world,      \* generate_grid: the dataset read from the shapefile
    merged,     \* generate_grid: the merged (prepared) geometry
    rows,       \* grid dimensions and resolution of the run
    cols,
    res,
    grid,       \* the land/water grid
    row,        \* generate_grid: position of the loops over the cells
    col,
    writes,     \* number of executions of grid[row, col] = 1, per cell
    lat,        \* validate_grid.check: arguments and locals
    lng,
    chk_row,
    chk_col,
    actual,
    vi,         \* validate_grid: number of check(...) calls made so far
    all_ok,     \* validate_grid: all_ok
    packed,     \* bitpack: packed
    data,       \* rle_encode: data
    i,          \* rle_encode: i
    result,     \* rle_encode: result
    b64,        \* main: b64
    stdout,     \* lines printed to standard output
    pc          \* position in the program

vars == <<world, merged, rows, cols, res, grid, row, col, writes, lat, lng,
          chk_row, chk_col, actual, vi, all_ok, packed, data, i, result,
          b64, stdout, pc>>

loadVars   == <<world, merged>>
shapeVars  == <<rows, cols, res>>
loopVars   == <<row, col, writes>>
checkVars  == <<lat, lng, chk_row, chk_col, actual>>
validVars  == <<vi, all_ok>>
rleVars    == <<data, i, result>>
outVars    == <<b64, stdout>>

----------------------------------------------------------------------------
(* Bounds of the model *)

\* rle_encode inputs: number of runs an input is built from
MaxRuns == 3

\* bitpack inputs: the grids of at most PackRows x PackCols cells
PackRows == 2
PackCols == 5

\* generate_grid, cell by cell: grids of at most RasterRows x RasterCols cells
\* and geometries that contain at most MaxLand of the sample points
RasterRows == 2
RasterCols == 2
MaxLand == 2

\* main and validate_grid: rows, cols and res (in 1e-4 degree) of the run, in
\* place of the 1800, 3600 and 0.1 of main
GridRows == 60
GridCols == 120
GridRes == 30000

----------------------------------------------------------------------------
(* Small arithmetic *)

Min(a, b) == IF a < b THEN a ELSE b
Max(a, b) == IF a > b THEN a ELSE b

\* 2^k for k in 0..7
Pow2(k) == <<1, 2, 4, 8, 16, 32, 64, 128>>[k + 1]

\* 0-based read of a sequence
At(s, k) == s[k + 1]

\* n copies of v
Repeat(v, n) == [k \in 1..n |-> v]

----------------------------------------------------------------------------
(* rle_encode *)

\* max run length of one pair
MaxCount == 255

\* a mutant of RunCond: the comparison data[i + count] == value is lost
RunCondNoCompare(d, start, count) ==
    start + count < Len(d) /\ count < MaxCount

\* a mutant of RunCond: the cap count < 255 is lost
RunCondNoCap(d, start, count) ==
    start + count < Len(d) /\ At(d, start + count) = At(d, start)

\* the condition of the inner while loop, value being data[i]
RunCond(d, start, count) ==
    start + count < Len(d) /\ At(d, start + count) = At(d, start)
    /\ count < MaxCount

\* the inner while loop, entered with count: count += 1 as long as the
\* condition holds, so the first count from there on at which it fails
RunCount(d, start, count) ==
    CHOOSE c \in count..Max(count, Len(d) - start) :
        /\ ~RunCond(d, start, c)
        /\ \A k \in count..(c - 1) : RunCond(d, start, k)

\* one iteration of the outer while loop: the two bytes appended
RlePair(d, start) == <<At(d, start), RunCount(d, start, 1)>>

\* the outer while loop from position start with result acc, to its end
RECURSIVE RleLoop(_, _, _)
RleLoop(d, start, acc) ==
    IF start < Len(d)
    THEN RleLoop(d, start + RlePair(d, start)[2], acc \o RlePair(d, start))
    ELSE acc

\* rle_encode(data)
RleEncode(d) == RleLoop(d, 0, <<>>)

----------------------------------------------------------------------------
(* bitpack *)

\* cell (r, c) of the grid as the uint8 value the array holds
Cell(g, r, c) == IF <<r, c>> \in g THEN 1 ELSE 0

\* grid.flatten(): row-major
Flatten(g, nrows, ncols) ==
    [k \in 1..(nrows * ncols) |-> Cell(g, (k - 1) \div ncols, (k - 1) % ncols)]

\* padded length: (len(flat) + 7) // 8 * 8
PaddedLen(n) == ((n + 7) \div 8) * 8

\* padded = zeros(padded_len); padded[:len(flat)] = flat
Pad(flat) ==
    [k \in 1..PaddedLen(Len(flat)) |-> IF k <= Len(flat) THEN flat[k] ELSE 0]

\* a | b on uint8
RECURSIVE BitOr(_, _)
BitOr(a, b) ==
    IF a = 0 THEN b
    ELSE IF b = 0 THEN a
    ELSE (IF a % 2 = 1 \/ b % 2 = 1 THEN 1 ELSE 0) + 2 * BitOr(a \div 2, b \div 2)

\* a << k on uint8
Shl8(a, k) == (a * Pow2(k)) % 256

\* a mutant of PackPass: the bits are packed least-significant first
PackPassLsb(pk, padded, bit) ==
    [j \in 1..Len(pk) |-> BitOr(pk[j], Shl8(At(padded, bit + 8 * (j - 1)), bit))]

\* one pass of the loop: packed |= padded[bit::8] << (7 - bit)
PackPass(pk, padded, bit) ==
    [j \in 1..Len(pk) |-> BitOr(pk[j], Shl8(At(padded, bit + 8 * (j - 1)), 7 - bit))]

\* the loop for bit in range(8), from bit on
RECURSIVE PackLoop(_, _, _)
PackLoop(pk, padded, bit) ==
    IF bit < 8 THEN PackLoop(PackPass(pk, padded, bit), padded, bit + 1) ELSE pk

\* bitpack(grid)
Bitpack(g, nrows, ncols) ==
    LET padded == Pad(Flatten(g, nrows, ncols))
    IN  PackLoop(Repeat(0, Len(padded) \div 8), padded, 0)

----------------------------------------------------------------------------
(* base64.b64encode(rle).decode('ascii'): RFC 4648, as a sequence of characters *)

B64Chars ==
    << "A", "B", "C", "D", "E", "F", "G", "H", "I", "J", "K", "L", "M",
       "N", "O", "P", "Q", "R", "S", "T", "U", "V", "W", "X", "Y", "Z",
       "a", "b", "c", "d", "e", "f", "g", "h", "i", "j", "k", "l", "m",
       "n", "o", "p", "q", "r", "s", "t", "u", "v", "w", "x", "y", "z",
       "0", "1", "2", "3", "4", "5", "6", "7", "8", "9", "+", "/" >>

B64Char(n) == B64Chars[n + 1]

RECURSIVE B64Loop(_, _, _)
B64Loop(bytes, k, acc) ==
    LET left == Len(bytes) - k
        b1 == At(bytes, k)
        b2 == At(bytes, k + 1)
        b3 == At(bytes, k + 2)
    IN  IF left <= 0 THEN acc
        ELSE IF left = 1 THEN
            acc \o <<B64Char(b1 \div 4), B64Char((b1 % 4) * 16), "=", "=">>
        ELSE IF left = 2 THEN
            acc \o <<B64Char(b1 \div 4), B64Char((b1 % 4) * 16 + b2 \div 16),
                     B64Char((b2 % 16) * 4), "=">>
        ELSE B64Loop(bytes, k + 3,
            acc \o <<B64Char(b1 \div 4), B64Char((b1 % 4) * 16 + b2 \div 16),
                     B64Char((b2 % 16) * 4 + b3 \div 64), B64Char(b3 % 64)>>)

B64Encode(bytes) == B64Loop(bytes, 0, <<>>)

\* the line main prints to standard output
OutputLine(text) == <<"const LAND_BITMAP_RLE_B64 = \"", text, "\";">>

----------------------------------------------------------------------------
(* generate_grid *)

\* an entry of the dataset: a row whose geometry is null, or a polygon
NullEntry == [notnull |-> FALSE, geometry |-> {}]
Polygon(points) == [notnull |-> TRUE, geometry |-> points]

\* land_geoms = world[world.geometry.notnull()].geometry.tolist()
LandGeoms(w) ==
    LET kept == SelectSeq(w, LAMBDA e : e.notnull)
    IN  [k \in 1..Len(kept) |-> kept[k].geometry]

\* unary_union(land_geoms): the points of any of the polygons (of none, when
\* the list is empty: the union of nothing is the empty geometry)
UnaryUnion(geoms) == UNION {geoms[k] : k \in 1..Len(geoms)}

\* prepared.contains(Point(lng, lat))
Contains(g, x, y) == <<x, y>> \in g

\* offsets = [0.17, 0.5, 0.83], in hundredths of a cell
Offsets == <<17, 50, 83>>

\* lat = 90.0 - (row + yo) * res
SampleLat(r, yo, rs) == 90000000 - (r * 100 + yo) * rs

\* lng = -180.0 + (col + xo) * res
SampleLng(c, xo, rs) == -180000000 + (c * 100 + xo) * rs

\* a mutant of ScanX: the break is outside the if, so the loop over xo ends
\* after its first test
ScanXBreakAlways(g, y, c, xi, rs) == Contains(g, SampleLng(c, Offsets[xi], rs), y)

\* for xo in offsets, from the xi-th offset on: whether a sample is land
RECURSIVE ScanX(_, _, _, _, _)
ScanX(g, y, c, xi, rs) ==
    IF xi > Len(Offsets) THEN FALSE
    ELSE IF Contains(g, SampleLng(c, Offsets[xi], rs), y) THEN TRUE
    ELSE ScanX(g, y, c, xi + 1, rs)

\* for yo in offsets, from the yi-th offset on, entered with is_land
RECURSIVE ScanY(_, _, _, _, _, _)
ScanY(g, r, c, yi, is_land, rs) ==
    IF yi > Len(Offsets) THEN is_land
    ELSE IF is_land THEN is_land
    ELSE ScanY(g, r, c, yi + 1,
               ScanX(g, SampleLat(r, Offsets[yi], rs), c, 1, rs), rs)

\* is_land of cell (r, c) after the loops over the offsets
CellIsLand(g, r, c, rs) == ScanY(g, r, c, 1, FALSE, rs)

\* a mutant of WrittenCell: the column index of the write is lost
WrittenCellFirstCol(r, c) == <<r, 0>>

\* the cell that grid[row, col] = 1 writes
WrittenCell(r, c) == <<r, c>>

Cells(nrows, ncols) == (0..(nrows - 1)) \X (0..(ncols - 1))

\* generate_grid(rows, cols, res): the grid it returns
GenerateGrid(g, nrows, ncols, rs) ==
    {WrittenCell(cell[1], cell[2]) :
        cell \in {x \in Cells(nrows, ncols) : CellIsLand(g, x[1], x[2], rs)}}

----------------------------------------------------------------------------
(* validate_grid *)

\* int(a / b) for b > 0: truncation towards zero
Trunc(a, b) == IF a >= 0 THEN a \div b ELSE -((-a) \div b)

\* a mutant of CheckRow: the lower clamp max(0, ...) is lost
CheckRowNoLowerClamp(y, rs, nrows) == Min(nrows - 1, Trunc(90000000 - y, rs * 100))

\* a mutant of CheckCol: round(...) in place of int(...)
CheckColRound(x, rs, ncols) ==
    Max(0, Min(ncols - 1, Trunc(2 * (x + 180000000) + rs * 100, 2 * rs * 100)))

\* row = int((90 - lat) / res); row = max(0, min(grid.shape[0] - 1, row))
CheckRow(y, rs, nrows) == Max(0, Min(nrows - 1, Trunc(90000000 - y, rs * 100)))

\* col = int((lng + 180) / res); col = max(0, min(grid.shape[1] - 1, col))
CheckCol(x, rs, ncols) == Max(0, Min(ncols - 1, Trunc(x + 180000000, rs * 100)))

\* actual = bool(grid[row, col])
Actual(g, r, c) == Cell(g, r, c) # 0

\* check(lat, lng, expected_name, expected_land): its return value
Check(g, y, x, expected_land, rs, nrows, ncols) ==
    Actual(g, CheckRow(y, rs, nrows), CheckCol(x, rs, ncols)) = expected_land

\* the reference points, in the order validate_grid checks them
RefPoints ==
    << [name |-> "San Francisco",     lat |->  37770000, lng |-> -122420000, land |-> TRUE],
       [name |-> "Mid-Pacific",       lat |->  20000000, lng |-> -160000000, land |-> FALSE],
       [name |-> "Tokyo",             lat |->  35680000, lng |->  139690000, land |-> TRUE],
       [name |-> "Hawaii Big Island", lat |->  19700000, lng |-> -155500000, land |-> TRUE],
       [name |-> "London",            lat |->  51500000, lng |->    -120000, land |-> TRUE],
       [name |-> "Mid-Atlantic",      lat |->         0, lng |->  -30000000, land |-> FALSE],
       [name |-> "Sydney",            lat |-> -33870000, lng |->  151210000, land |-> TRUE],
       [name |-> "Honolulu",          lat |->  21310000, lng |-> -157860000, land |-> TRUE],
       [name |-> "Gulf of Guinea",    lat |->         0, lng |->          0, land |-> FALSE] >>

\* the k-th call of check
CheckRef(g, k, rs, nrows, ncols) ==
    Check(g, RefPoints[k].lat, RefPoints[k].lng, RefPoints[k].land, rs, nrows, ncols)

\* a mutant of AndAssign: all_ok = check(...)
AndAssignOverwrite(acc, ok) == ok

\* all_ok &= check(...)
AndAssign(acc, ok) == acc /\ ok

\* the calls of check from the k-th on, entered with all_ok = acc
RECURSIVE ValidateFrom(_, _, _, _, _, _)
ValidateFrom(g, k, acc, rs, nrows, ncols) ==
    IF k > Len(RefPoints) THEN acc
    ELSE ValidateFrom(g, k + 1, AndAssign(acc, CheckRef(g, k, rs, nrows, ncols)),
                      rs, nrows, ncols)

\* validate_grid(grid, res): its return value
ValidateGrid(g, rs, nrows, ncols) == ValidateFrom(g, 1, TRUE, rs, nrows, ncols)

----------------------------------------------------------------------------
(* The values of the variables a run does not use *)

IdleLoad  == world = <<>> /\ merged = {}
IdleShape == rows = 0 /\ cols = 0 /\ res = 0
IdleLoop  == row = 0 /\ col = 0 /\ writes = <<>>
IdleCheck == lat = 0 /\ lng = 0 /\ chk_row = 0 /\ chk_col = 0 /\ actual = FALSE
IdleValid == vi = 0 /\ all_ok = TRUE
IdleRle   == data = <<>> /\ i = 0 /\ result = <<>>
IdleOut   == b64 = <<>> /\ stdout = <<>>

----------------------------------------------------------------------------
(* rle_encode(data), one iteration of the outer loop at a time *)

\* the inputs: up to MaxRuns runs, each of one of these values and lengths
RleValues == {0, 170}
RleLens == {1, 2, 255, 256, 300}

RECURSIVE ConcatRuns(_, _)
ConcatRuns(runs, k) ==
    IF k > Len(runs) THEN <<>>
    ELSE Repeat(runs[k][1], runs[k][2]) \o ConcatRuns(runs, k + 1)

RleInputs ==
    {ConcatRuns(runs, 1) :
        runs \in UNION {[1..n -> RleValues \X RleLens] : n \in 0..MaxRuns}}

InitRle ==
    /\ data \in RleInputs
    /\ i = 0
    /\ result = <<>>
    /\ pc = "rle"
    /\ grid = {} /\ packed = <<>>
    /\ IdleLoad /\ IdleShape /\ IdleLoop /\ IdleCheck /\ IdleValid /\ IdleOut

\* one iteration of while i < len(data)
RleStep ==
    /\ pc = "rle"
    /\ i < Len(data)
    /\ result' = result \o RlePair(data, i)
    /\ i' = i + RlePair(data, i)[2]
    /\ UNCHANGED <<data, pc, grid, packed, loadVars, shapeVars, loopVars,
                   checkVars, validVars, outVars>>

\* return bytes(result)
RleReturn ==
    /\ pc = "rle"
    /\ i >= Len(data)
    /\ pc' = "rle_done"
    /\ UNCHANGED <<rleVars, grid, packed, loadVars, shapeVars, loopVars,
                   checkVars, validVars, outVars>>

NextRle == RleStep \/ RleReturn

SpecRle == InitRle /\ [][NextRle]_vars

----------------------------------------------------------------------------
(* bitpack(grid) *)

InitPack ==
    /\ rows \in 1..PackRows
    /\ cols \in 1..PackCols
    /\ res = 0
    /\ grid \in SUBSET Cells(rows, cols)
    /\ packed = <<>>
    /\ pc = "bitpack"
    /\ IdleLoad /\ IdleLoop /\ IdleCheck /\ IdleValid /\ IdleRle /\ IdleOut

DoBitpack ==
    /\ pc = "bitpack"
    /\ packed' = Bitpack(grid, rows, cols)
    /\ pc' = "packed"
    /\ UNCHANGED <<grid, loadVars, shapeVars, loopVars, checkVars, validVars,
                   rleVars, outVars>>

NextPack == DoBitpack

SpecPack == InitPack /\ [][NextPack]_vars

----------------------------------------------------------------------------
(* generate_grid(rows, cols, res), one cell at a time *)

\* the default res of generate_grid: 0.25
DefaultRes == 2500

\* the sample points of cell (r, c)
CellSamples(r, c, rs) ==
    {<<SampleLng(c, Offsets[xi], rs), SampleLat(r, Offsets[yi], rs)>> :
        xi \in 1..Len(Offsets), yi \in 1..Len(Offsets)}

\* the sample points of a grid
GridSamples(nrows, ncols, rs) ==
    UNION {CellSamples(cell[1], cell[2], rs) : cell \in Cells(nrows, ncols)}

\* the sets of at most n elements of S
RECURSIVE UpTo(_, _)
UpTo(S, n) ==
    IF n = 0 THEN {{}}
    ELSE UpTo(S, n - 1) \cup {T \cup {x} : T \in UpTo(S, n - 1), x \in S}

InitRaster ==
    /\ rows \in 1..RasterRows
    /\ cols \in 1..RasterCols
    /\ res = DefaultRes
    /\ world = <<>>
    /\ merged \in UpTo(GridSamples(rows, cols, res), MaxLand)
    /\ grid = {}
    /\ row = 0 /\ col = 0
    /\ writes = [cell \in Cells(rows, cols) |-> 0]
    /\ packed = <<>>
    /\ pc = "raster"
    /\ IdleCheck /\ IdleValid /\ IdleRle /\ IdleOut

\* one iteration of for col in range(cols), and the end of the loops
RasterCell ==
    /\ pc = "raster"
    /\ row < rows /\ col < cols
    /\ IF CellIsLand(merged, row, col, res)
       THEN /\ grid' = grid \cup {WrittenCell(row, col)}
            /\ writes' = [writes EXCEPT ![WrittenCell(row, col)] = @ + 1]
       ELSE UNCHANGED <<grid, writes>>
    /\ IF col + 1 < cols
       THEN row' = row /\ col' = col + 1
       ELSE row' = row + 1 /\ col' = 0
    /\ pc' = IF col + 1 < cols \/ row + 1 < rows THEN "raster" ELSE "rastered"
    /\ UNCHANGED <<loadVars, shapeVars, packed, checkVars, validVars, rleVars,
                   outVars>>

NextRaster == RasterCell

SpecRaster == InitRaster /\ [][NextRaster]_vars

----------------------------------------------------------------------------
(* validate_grid(grid, res), one call of check at a time *)

\* the cell check reads for the k-th reference point
RefCell(k) ==
    <<CheckRow(RefPoints[k].lat, GridRes, GridRows),
      CheckCol(RefPoints[k].lng, GridRes, GridCols)>>

RefCells == {RefCell(k) : k \in 1..Len(RefPoints)}

InitValidate ==
    /\ rows = GridRows /\ cols = GridCols /\ res = GridRes
    /\ grid \in SUBSET RefCells
    /\ vi = 0
    /\ all_ok = TRUE
    /\ packed = <<>>
    /\ pc = "validate"
    /\ IdleLoad /\ IdleLoop /\ IdleCheck /\ IdleRle /\ IdleOut

\* all_ok &= check(...), for the next reference point
ValidateStep ==
    /\ pc = "validate"
    /\ vi < Len(RefPoints)
    /\ lat' = RefPoints[vi + 1].lat
    /\ lng' = RefPoints[vi + 1].lng
    /\ chk_row' = CheckRow(lat', res, rows)
    /\ chk_col' = CheckCol(lng', res, cols)
    /\ actual' = Actual(grid, chk_row', chk_col')
    /\ all_ok' = AndAssign(all_ok, CheckRef(grid, vi + 1, res, rows, cols))
    /\ vi' = vi + 1
    /\ pc' = IF vi + 1 < Len(RefPoints) THEN "validate" ELSE "validated"
    /\ UNCHANGED <<grid, packed, loadVars, shapeVars, loopVars, rleVars, outVars>>

NextValidate == ValidateStep

SpecValidate == InitValidate /\ [][NextValidate]_vars

----------------------------------------------------------------------------
(* check(lat, lng, ...) of validate_grid, on any coordinates *)

\* the latitudes: the sample latitudes of every row, the edges, and beyond
LatProbes ==
    {SampleLat(r, Offsets[k], GridRes) : r \in 0..(GridRows - 1), k \in 1..Len(Offsets)}
    \cup {90000000, -90000000, SampleLat(GridRows, 0, GridRes), 0,
          91000000, -91000000, 1000000000, -1000000000}

\* the longitudes: the sample longitudes of every column, the edges, and beyond
LngProbes ==
    {SampleLng(c, Offsets[k], GridRes) : c \in 0..(GridCols - 1), k \in 1..Len(Offsets)}
    \cup {180000000, -180000000, SampleLng(GridCols, 0, GridRes), 0,
          181000000, -181000000, 1000000000, -1000000000}

InitCheck ==
    /\ rows = GridRows /\ cols = GridCols /\ res = GridRes
    /\ grid = {RefCell(k) : k \in {n \in 1..Len(RefPoints) : RefPoints[n].land}}
    /\ lat \in LatProbes
    /\ lng \in LngProbes
    /\ chk_row = 0 /\ chk_col = 0 /\ actual = FALSE
    /\ packed = <<>>
    /\ pc = "check"
    /\ IdleLoad /\ IdleLoop /\ IdleValid /\ IdleRle /\ IdleOut

DoCheck ==
    /\ pc = "check"
    /\ chk_row' = CheckRow(lat, res, rows)
    /\ chk_col' = CheckCol(lng, res, cols)
    /\ actual' = Actual(grid, chk_row', chk_col')
    /\ pc' = "checked"
    /\ UNCHANGED <<lat, lng, grid, packed, loadVars, shapeVars, loopVars,
                   validVars, rleVars, outVars>>

NextCheck == DoCheck

SpecCheck == InitCheck /\ [][NextCheck]_vars

----------------------------------------------------------------------------
(* main *)

\* the last sample point the loops of generate_grid test in cell (r, c)
LastSample(cell, rs) ==
    <<SampleLng(cell[2], Offsets[Len(Offsets)], rs),
      SampleLat(cell[1], Offsets[Len(Offsets)], rs)>>

\* the centre of cell (r, c)
CentreSample(cell, rs) ==
    <<SampleLng(cell[2], Offsets[2], rs), SampleLat(cell[1], Offsets[2], rs)>>

\* The polygons of the datasets: the continents (touching only the last
\* sample tested in the cells of San Francisco, Tokyo, London and Sydney), the
\* islands of Hawaii (covering the cells of Hawaii Big Island and Honolulu)
\* and an atoll at the centre of the Mid-Pacific cell.
PolyContinents == {LastSample(RefCell(k), GridRes) : k \in {1, 3, 5, 7}}
PolyHawaii == UNION {CellSamples(RefCell(k)[1], RefCell(k)[2], GridRes) : k \in {4, 8}}
PolyAtoll == {CentreSample(RefCell(2), GridRes)}

\* the rows of the full dataset: a null geometry and the three polygons
Catalogue ==
    <<NullEntry, Polygon(PolyContinents), Polygon(PolyHawaii), Polygon(PolyAtoll)>>

\* the rows of c whose index is in S, in order
Rows(c, S) ==
    LET idx == SelectSeq([k \in 1..Len(c) |-> k], LAMBDA k : k \in S)
    IN  [j \in 1..Len(idx) |-> c[idx[j]]]

\* the datasets: any of the rows of the full dataset, in order
Worlds == {Rows(Catalogue, S) : S \in SUBSET (1..Len(Catalogue))}

Init ==
    /\ world \in Worlds
    /\ merged = {}
    /\ rows = GridRows /\ cols = GridCols /\ res = GridRes
    /\ grid = {}
    /\ packed = <<>>
    /\ pc = "load"
    /\ IdleLoop /\ IdleCheck /\ IdleValid /\ IdleRle /\ IdleOut

\* generate_grid: the dataset is read, its null geometries are dropped, the
\* rest is merged and prepared
Load ==
    /\ pc = "load"
    /\ merged' = UnaryUnion(LandGeoms(world))
    /\ pc' = "raster"
    /\ UNCHANGED <<world, shapeVars, grid, packed, loopVars, checkVars,
                   validVars, rleVars, outVars>>

\* generate_grid: the grid is created, rasterized and returned
Rasterize ==
    /\ pc = "raster"
    /\ grid' = GenerateGrid(merged, rows, cols, res)
    /\ pc' = "validate"
    /\ UNCHANGED <<loadVars, shapeVars, packed, loopVars, checkVars,
                   validVars, rleVars, outVars>>

\* a mutant of AfterValidate: main stops when the validation has failed
AfterValidateStop(ok) == IF ok THEN "bitpack" ELSE "done"

\* main: the statement after validate_grid(grid, res), whose value is dropped
AfterValidate(ok) == "bitpack"

\* validate_grid(grid, res)
Validate ==
    /\ pc = "validate"
    /\ all_ok' = ValidateGrid(grid, res, rows, cols)
    /\ vi' = Len(RefPoints)
    /\ pc' = AfterValidate(all_ok')
    /\ UNCHANGED <<loadVars, shapeVars, grid, packed, loopVars, checkVars,
                   rleVars, outVars>>

\* packed = bitpack(grid)
MainBitpack ==
    /\ pc = "bitpack"
    /\ packed' = Bitpack(grid, rows, cols)
    /\ pc' = "rle"
    /\ UNCHANGED <<loadVars, shapeVars, grid, loopVars, checkVars, validVars,
                   rleVars, outVars>>

\* rle = rle_encode(packed)
MainRle ==
    /\ pc = "rle"
    /\ data' = packed
    /\ result' = RleEncode(packed)
    /\ i' = Len(packed)
    /\ pc' = "b64"
    /\ UNCHANGED <<loadVars, shapeVars, grid, packed, loopVars, checkVars,
                   validVars, outVars>>

\* b64 = base64.b64encode(rle).decode('ascii')
MainB64 ==
    /\ pc = "b64"
    /\ b64' = B64Encode(result)
    /\ pc' = "emit"
    /\ UNCHANGED <<loadVars, shapeVars, grid, packed, loopVars, checkVars,
                   validVars, rleVars, stdout>>

\* print(f'const LAND_BITMAP_RLE_B64 = "{b64}";')
Emit ==
    /\ pc = "emit"
    /\ stdout' = Append(stdout, OutputLine(b64))
    /\ pc' = "done"
    /\ UNCHANGED <<loadVars, shapeVars, grid, packed, loopVars, checkVars,
                   validVars, rleVars, b64>>

Next == Load \/ Rasterize \/ Validate \/ MainBitpack \/ MainRle \/ MainB64 \/ Emit

Spec == Init /\ [][Next]_vars

----------------------------------------------------------------------------
(* Properties of rle_encode, under SpecRle *)

\* the pairs (value, count) expanded to count copies of value each
RECURSIVE Expand(_)
Expand(pairs) ==
    IF Len(pairs) < 2 THEN <<>>
    ELSE Repeat(pairs[1], pairs[2]) \o Expand(SubSeq(pairs, 3, Len(pairs)))

\* C1: RLE is lossless.  The pairs emitted so far expand to exactly the bytes
\* consumed so far, and when rle_encode returns they expand to exactly data:
\* for the empty input, and for inputs with runs longer than 255.
C1_RleLossless ==
    pc \in {"rle", "rle_done"} =>
        /\ Len(result) % 2 = 0
        /\ i <= Len(data)
        /\ Expand(result) = SubSeq(data, 1, i)
        /\ pc = "rle_done" => Expand(result) = data

\* C1, witness: rle_encode has returned on an input with a run of more than
\* 255 bytes followed by other bytes, which it has split.
C1_Witness ==
    /\ pc = "rle_done"
    /\ Len(data) > 256
    /\ Len(result) >= 6
    /\ result[2] = MaxCount /\ result[3] = result[1]
    /\ Expand(result) = data

\* the length of the maximal run of data that starts at the 1-based position s
RunLenAt(d, s) ==
    CHOOSE n \in 1..(Len(d) - s + 1) :
        /\ s + n > Len(d) \/ d[s + n] # d[s]
        /\ \A k \in s..(s + n - 1) : d[k] = d[s]

\* a run of n bytes v as pairs: n div 255 pairs of count 255, then one pair
\* of count n mod 255 when that is not zero
RunPairs(v, n) ==
    [k \in 1..(2 * (n \div 255)) |-> IF k % 2 = 1 THEN v ELSE 255]
    \o (IF n % 255 # 0 THEN <<v, n % 255>> ELSE <<>>)

\* the pairs of the maximal runs of data from position s on
RECURSIVE RunsPairs(_, _)
RunsPairs(d, s) ==
    IF s > Len(d) THEN <<>>
    ELSE RunPairs(d[s], RunLenAt(d, s)) \o RunsPairs(d, s + RunLenAt(d, s))

\* C3: run-length cap and maximality.  When rle_encode returns, every pair
\* has a count from 1 to 255, each maximal run of n identical bytes has
\* become n div 255 pairs of count 255 and then one of count n mod 255 when
\* that is not zero, and two consecutive pairs have the same value only when
\* the first has count 255.
C3_RunCapAndMaximality ==
    pc = "rle_done" =>
        /\ \A k \in 1..(Len(result) \div 2) :
              result[2 * k] >= 1 /\ result[2 * k] <= 255
        /\ result = RunsPairs(data, 1)
        /\ \A k \in 1..(Len(result) \div 2 - 1) :
              result[2 * k - 1] = result[2 * k + 1] => result[2 * k] = 255

\* C3, witness: a run of 300 identical bytes has been encoded as (value, 255)
\* and then (value, 45).
C3_Witness ==
    /\ pc = "rle_done"
    /\ data = Repeat(170, 300)
    /\ result = <<170, 255, 170, 45>>

----------------------------------------------------------------------------
(* Properties of bitpack, under SpecPack *)

\* bit k of byte b, bit 7 being the most significant
BitOf(b, k) == (b \div Pow2(k)) % 2

\* the cell at position k of the row-major order of a grid of ncols columns
CellAt(k, ncols) == <<k \div ncols, k % ncols>>

\* the grid read back from the first n bits
Unpack(pk, n, ncols) ==
    {CellAt(k, ncols) : k \in {m \in 0..(n - 1) : BitOf(At(pk, m \div 8), 7 - (m % 8)) = 1}}

\* C2: bit-pack round trip.  For a grid of n = rows * cols cells, bitpack
\* returns ceil(n / 8) bytes, cell k of the row-major order is bit 7 - k mod 8
\* of byte k div 8, every padding bit is 0, and the first n bits unpack to
\* the grid.
C2_BitpackRoundTrip ==
    pc = "packed" =>
        LET n == rows * cols
        IN  /\ 8 * Len(packed) >= n /\ 8 * (Len(packed) - 1) < n
            /\ \A k \in 1..Len(packed) : packed[k] \in 0..255
            /\ \A k \in 0..(n - 1) :
                  BitOf(At(packed, k \div 8), 7 - (k % 8)) = 1 <=> CellAt(k, cols) \in grid
            /\ \A k \in n..(8 * Len(packed) - 1) :
                  BitOf(At(packed, k \div 8), 7 - (k % 8)) = 0
            /\ Unpack(packed, n, cols) = grid

\* C2, witness: a grid of 10 cells whose first and last cells are land has
\* been packed into two bytes, the second of which holds six padding bits.
C2_Witness ==
    /\ pc = "packed"
    /\ rows * cols = 10
    /\ <<0, 0>> \in grid /\ <<rows - 1, cols - 1>> \in grid
    /\ Len(packed) = 2
    /\ packed[1] >= 128 /\ packed[2] = 64

----------------------------------------------------------------------------
(* Properties of generate_grid, under SpecRaster *)

\* C4: rasterizer classification.  When generate_grid finishes, a cell is
\* land if and only if the geometry contains at least one of its 9 sample
\* points; the early exit does not change that.
C4_CellLandIffAnySample ==
    pc = "rastered" =>
        \A cell \in Cells(rows, cols) :
            cell \in grid <=>
                \E yi \in 1..3, xi \in 1..3 :
                    Contains(merged, SampleLng(cell[2], Offsets[xi], res),
                                     SampleLat(cell[1], Offsets[yi], res))

\* C4, witness: generate_grid has finished and a cell whose only land sample
\* is the last one tested (offsets 0.83 and 0.83) is land.
C4_Witness ==
    /\ pc = "rastered"
    /\ \E cell \in Cells(rows, cols) :
          /\ merged \cap CellSamples(cell[1], cell[2], res) = {LastSample(cell, res)}
          /\ cell \in grid

\* the cells whose loop iteration has finished
Finished == {cell \in Cells(rows, cols) : cell[1] * cols + cell[2] < row * cols + col}

\* C8 as stated: when generate_grid finishes, every cell has been written
\* exactly once.
C8_EveryCellWrittenOnce ==
    pc = "rastered" => \A cell \in Cells(rows, cols) : writes[cell] = 1

\* C8, amended: a cell is assigned at most once, by the loop iteration of
\* that cell and only when it is land (a water cell is never assigned: it
\* keeps the 0 of np.zeros), and no cell's value changes after its loop
\* iteration has finished.
C8_WrittenAtMostOnce ==
    /\ [](pc \in {"raster", "rastered"} =>
            \A cell \in Cells(rows, cols) :
                /\ writes[cell] <= 1
                /\ writes[cell] = 1 <=> cell \in grid
                /\ cell \in grid => cell \in Finished)
    /\ [][pc = "raster" =>
            \A cell \in Finished : (cell \in grid') = (cell \in grid)]_vars

\* C8, witness: generate_grid has finished, with a land cell assigned once
\* and a water cell never assigned.
C8_Witness ==
    /\ pc = "rastered"
    /\ \E cell \in Cells(rows, cols) : cell \in grid /\ writes[cell] = 1
    /\ \E cell \in Cells(rows, cols) : cell \notin grid /\ writes[cell] = 0

----------------------------------------------------------------------------
(* Properties of validate_grid, under SpecValidate and SpecCheck *)

\* whether the k-th reference point matches the grid
RefMatches(k) == (RefCell(k) \in grid) = RefPoints[k].land

\* C9: validate_grid returns true if and only if each of the 9 reference
\* points matches; every check is made, also after a mismatch; the grid is
\* left unchanged.
C9_ValidateAllNine ==
    /\ [](pc = "validated" =>
            /\ vi = 9
            /\ all_ok <=> \A k \in 1..9 : RefMatches(k))
    /\ [](pc = "validate" => vi < 9 /\ ENABLED ValidateStep)
    /\ [][pc = "validate" => vi' = vi + 1 /\ grid' = grid]_vars

\* C9, witness: validate_grid has returned false on a grid whose first
\* reference point mismatches and whose last one matches.
C9_Witness ==
    /\ pc = "validated"
    /\ vi = 9
    /\ ~RefMatches(1) /\ RefMatches(9)
    /\ ~all_ok

\* C7: validator index safety.  Whatever the latitude and longitude, the row
\* and column check reads the grid at are within the grid.
C7_CheckIndexInRange ==
    pc = "checked" =>
        /\ 0 <= chk_row /\ chk_row <= rows - 1
        /\ 0 <= chk_col /\ chk_col <= cols - 1

\* C7, witness: check has been made at lat = -90 and lng = 180, where the
\* indices computed are rows and cols, and has read the last cell.
C7_Witness ==
    /\ pc = "checked"
    /\ lat = -90000000 /\ lng = 180000000
    /\ Trunc(90000000 - lat, res * 100) >= rows
    /\ Trunc(lng + 180000000, res * 100) >= cols
    /\ chk_row = rows - 1 /\ chk_col = cols - 1

\* C10: the lookup of the validator agrees with the cells of the rasterizer.
\* For each cell (r, c) of the grid and each pair of offsets, check reads the
\* sample point lat = 90 - (r + yo) * res, lng = -180 + (c + xo) * res at row
\* r and column c.
C10_LookupAgreesWithCells ==
    pc = "checked" =>
        /\ \A r \in 0..(rows - 1), k \in 1..3 :
              lat = 90000000 - (r * 100 + Offsets[k]) * res => chk_row = r
        /\ \A c \in 0..(cols - 1), k \in 1..3 :
              lng = -180000000 + (c * 100 + Offsets[k]) * res => chk_col = c

\* C10, witness: check has been made at the last sample point of the last
\* cell of the grid.
C10_Witness ==
    /\ pc = "checked"
    /\ <<lng, lat>> = LastSample(<<rows - 1, cols - 1>>, res)
    /\ chk_row = rows - 1 /\ chk_col = cols - 1

----------------------------------------------------------------------------
(* Properties of main, under Spec *)

\* C5 as stated: when the dataset has no usable geometry, main fails with an
\* EmptyGeometryError before the rasterization, and prints no constant.
C5_EmptyDatasetFails ==
    LandGeoms(world) = <<>> =>
        /\ pc \in {"load", "EmptyGeometryError"}
        /\ stdout = <<>>

\* C6: validation is not fatal and the stages run in order.  Nothing is
\* encoded or printed before validate_grid has run on the rasterized grid;
\* after it, whatever it returned, main goes on, and when main ends it has
\* printed exactly one line, the constant encoded from the grid alone.
C6_ValidationNonFatal ==
    /\ pc \in {"load", "raster", "validate"} =>
          vi = 0 /\ packed = <<>> /\ result = <<>> /\ b64 = <<>>
    /\ pc \in {"load", "raster"} => grid = {}
    /\ pc \in {"bitpack", "rle", "b64", "emit", "done"} => vi = 9
    /\ pc # "done" => stdout = <<>>
    /\ pc = "done" =>
          stdout = <<OutputLine(B64Encode(RleEncode(Bitpack(grid, rows, cols))))>>

\* C6, witness: main has ended after a failed validation, with the constant
\* printed.
C6_Witness ==
    /\ pc = "done"
    /\ ~all_ok
    /\ Len(stdout) = 1
    /\ stdout[1][2] = b64 /\ b64 # <<>>

\* main has ended after a validation that passed, with the constant printed
ValidationPassedAndPrinted ==
    pc = "done" /\ all_ok /\ Len(stdout) = 1

====
